---- MODULE Spec2Model ----
(***************************************************************************)
(* Device-code authentication client (tradingagents/auth/auth_client.py),  *)
(* its value objects (models.py) and its token store (token_store.py).     *)
(*                                                                         *)
(* One synchronous caller makes one call of a public operation on an       *)
(* AuthClient whose store an earlier run left behind, or a short series of *)
(* calls on the TokenStore itself.  The caller's position is pc; the       *)
(* places where the client blocks (an HTTP request, time.sleep) are the    *)
(* steps of the machine.  The wall clock `now` counts seconds.             *)
(***************************************************************************)
EXTENDS Integers, Sequences, FiniteSets, TLC

VARIABLES
    now,           \* the wall clock, in seconds
    keyringAvail,  \* token_store.keyring is not None
    store,         \* what the keyring entry and the fallback file hold
    pc,            \* where the caller is
    op,            \* the public operation the caller is in
    openBrowser,   \* login's open_browser argument
    tokenSet,      \* get_session's local token_set
    grant,         \* the grant poll_for_token works on
    interval,      \* poll_for_token's local interval
    result,        \* how the operation ended
    trace,         \* what the operation did so far, in order
    calledAt,      \* the clock when the operation was called
    lastResp,      \* the latest response (or transport failure) of each endpoint
    lastReqAt,     \* when poll_for_token sent its latest request
    lastGap,       \* the time between its two latest requests
    lastWait,      \* the length of its latest sleep
    slowDowns,     \* the slow_down answers it has had
    lastSaved,     \* what the caller's own save and clear calls last put in the store
    lastReq,       \* the data of the latest request to each endpoint, and the
                   \* URL handed to webbrowser.open
    procs          \* the processes that work on one store at the same time

vars == <<now, keyringAvail, store, pc, op, openBrowser, tokenSet, grant, interval,
          result, trace, calledAt, lastResp, lastReqAt, lastGap, lastWait, slowDowns,
          lastSaved, lastReq, procs>>

\* what poll_for_token has observed so far
pollObs == <<lastReqAt, lastGap, lastWait, slowDowns>>

(***************************************************************************)
(* Bounds of the model.                                                    *)
(***************************************************************************)
MaxNow == 40
MaxPolls == 3
MaxStoreOps == 3

(***************************************************************************)
(* Program constants.                                                      *)
(***************************************************************************)
DefaultSkew == 30
SlowDownIncrement == 5
DefaultGrantExpiresIn == 600
DefaultInterval == 5
DefaultTokenExpiresIn == 0

(***************************************************************************)
(* Python values.  None is Python's None; a dict is a function whose       *)
(* domain is its keys.                                                     *)
(***************************************************************************)
None == "<None>"

Truthy(s) == s # None /\ s # ""

\* dict.get(key, default)
Get(payload, key, default) ==
    IF key \in DOMAIN payload THEN payload[key] ELSE default

NoToken == [absent |-> "token"]
NoGrant == [absent |-> "grant"]

(***************************************************************************)
(* models.py                                                               *)
(***************************************************************************)
\* DeviceCodeGrant.from_response raises KeyError without these keys.
GrantPayloadOk(payload) ==
    /\ "device_code" \in DOMAIN payload
    /\ "user_code" \in DOMAIN payload

GrantFromResponse(payload, clock) ==
    [device_code |-> payload["device_code"],
     user_code |-> payload["user_code"],
     verification_uri |->
        IF Truthy(Get(payload, "verification_uri", None))
        THEN payload["verification_uri"]
        ELSE Get(payload, "verification_uri_complete", ""),
     verification_uri_complete |-> Get(payload, "verification_uri_complete", None),
     expires_at |-> clock + Get(payload, "expires_in", DefaultGrantExpiresIn),
     interval |-> Get(payload, "interval", DefaultInterval)]

\* is_expired that lets the grant live through its last second
GrantIsExpired_Late(g, clock) == clock > g.expires_at

\* a grant that never runs out
GrantIsExpired_Never(g, clock) == FALSE

GrantIsExpired(g, clock) == clock >= g.expires_at

\* TokenSet.from_response raises KeyError without access_token.
TokenPayloadOk(payload) == "access_token" \in DOMAIN payload

TokenFromResponse(payload, clock) ==
    [access_token |-> payload["access_token"],
     token_type |-> Get(payload, "token_type", "bearer"),
     expires_at |-> clock + Get(payload, "expires_in", DefaultTokenExpiresIn),
     refresh_token |-> Get(payload, "refresh_token", None),
     scope |-> Get(payload, "scope", None)]

\* is_expired that forgets the skew margin
TokenIsExpired_NoSkew(t, skew, clock) == clock >= t.expires_at

\* is_expired that adds the skew margin to the lifetime
TokenIsExpired_SkewAdded(t, skew, clock) == clock >= t.expires_at + skew

TokenIsExpired(t, skew, clock) == clock >= t.expires_at - skew

(***************************************************************************)
(* token_store.py.  The store is the keyring entry (service, "tokens"),    *)
(* the fallback file and the file's permission bits.                       *)
(***************************************************************************)
NoEntry == [kind |-> "none"]
EmptyText == [kind |-> "text", text |-> ""]
Garbage == [kind |-> "text", text |-> "not json"]

ModeOwnerOnly == "0600"
ModeUmask == "0644"
NoMode == "-"

\* datetime.isoformat / datetime.fromisoformat
IsoFormat(t) == <<"iso", t>>
IsIsoFormat(s) == Len(s) = 2 /\ s[1] = "iso"
FromIsoFormat(s) == s[2]

Serialize(t) ==
    [kind |-> "json",
     obj |-> [access_token |-> t.access_token,
              refresh_token |-> t.refresh_token,
              token_type |-> t.token_type,
              scope |-> t.scope,
              expires_at |-> IsoFormat(t.expires_at)]]

\* json.loads succeeds, both subscripted keys exist, the timestamp parses
DeserializeOk(s) ==
    /\ s.kind = "json"
    /\ "expires_at" \in DOMAIN s.obj
    /\ IsIsoFormat(s.obj["expires_at"])
    /\ "access_token" \in DOMAIN s.obj

\* _deserialize that takes every token for a bearer token
Deserialize_BearerOnly(s) ==
    [access_token |-> s.obj["access_token"],
     refresh_token |-> Get(s.obj, "refresh_token", None),
     token_type |-> "bearer",
     scope |-> Get(s.obj, "scope", None),
     expires_at |-> FromIsoFormat(s.obj["expires_at"])]

Deserialize(s) ==
    [access_token |-> s.obj["access_token"],
     refresh_token |-> Get(s.obj, "refresh_token", None),
     token_type |-> Get(s.obj, "token_type", "bearer"),
     scope |-> Get(s.obj, "scope", None),
     expires_at |-> FromIsoFormat(s.obj["expires_at"])]

\* _load_from_keyring: "found" with the entry to deserialize, or "none"
KeyringHasEntry(st, kavail) ==
    kavail /\ st.kr # NoEntry /\ st.kr # EmptyText

\* load that reads the fallback file before the keyring
StoreLoad_FileFirst(st, kavail, ioFail) ==
    IF ioFail THEN [raised |-> TRUE, token |-> NoToken]
    ELSE IF st.file # NoEntry
    THEN IF DeserializeOk(st.file)
         THEN [raised |-> FALSE, token |-> Deserialize(st.file)]
         ELSE [raised |-> TRUE, token |-> NoToken]
    ELSE IF KeyringHasEntry(st, kavail)
    THEN IF DeserializeOk(st.kr)
         THEN [raised |-> FALSE, token |-> Deserialize(st.kr)]
         ELSE [raised |-> TRUE, token |-> NoToken]
    ELSE [raised |-> FALSE, token |-> NoToken]

\* load that takes data it cannot deserialize for no data
StoreLoad_SilentOnMalformed(st, kavail, ioFail) ==
    IF ioFail THEN [raised |-> TRUE, token |-> NoToken]
    ELSE IF KeyringHasEntry(st, kavail) /\ DeserializeOk(st.kr)
    THEN [raised |-> FALSE, token |-> Deserialize(st.kr)]
    ELSE IF st.file # NoEntry /\ DeserializeOk(st.file)
    THEN [raised |-> FALSE, token |-> Deserialize(st.file)]
    ELSE [raised |-> FALSE, token |-> NoToken]

\* TokenStore.load; ioFail: the backend read itself raises
StoreLoad(st, kavail, ioFail) ==
    IF ioFail THEN [raised |-> TRUE, token |-> NoToken]
    ELSE IF KeyringHasEntry(st, kavail)
    THEN IF DeserializeOk(st.kr)
         THEN [raised |-> FALSE, token |-> Deserialize(st.kr)]
         ELSE [raised |-> TRUE, token |-> NoToken]
    ELSE IF st.file # NoEntry
    THEN IF DeserializeOk(st.file)
         THEN [raised |-> FALSE, token |-> Deserialize(st.file)]
         ELSE [raised |-> TRUE, token |-> NoToken]
    ELSE [raised |-> FALSE, token |-> NoToken]

\* the steps of save at which the backend can raise
SaveFailPoints(kavail) ==
    IF kavail THEN {"none", "set_password"}
    ELSE {"none", "mkdir", "open", "write", "chmod"}

\* save that writes the fallback file as well as the keyring
StoreSave_AlsoFile(st, kavail, t, failAt) ==
    IF failAt # "none" THEN [raised |-> TRUE, store |-> st]
    ELSE [raised |-> FALSE,
          store |-> [kr |-> IF kavail THEN Serialize(t) ELSE st.kr,
                     file |-> Serialize(t),
                     mode |-> ModeOwnerOnly]]

\* save without its chmod
StoreSave_NoChmod(st, kavail, t, failAt) ==
    IF failAt # "none" THEN [raised |-> TRUE, store |-> st]
    ELSE IF kavail THEN [raised |-> FALSE, store |-> [st EXCEPT !.kr = Serialize(t)]]
    ELSE [raised |-> FALSE,
          store |-> [st EXCEPT !.file = Serialize(t),
                               !.mode = IF st.file = NoEntry THEN ModeUmask ELSE @]]

\* save that returns without writing anything
StoreSave_Dropped(st, kavail, t, failAt) ==
    [raised |-> failAt # "none", store |-> st]

\* TokenStore.save; failAt: the step that raises, "none" when none does
StoreSave(st, kavail, t, failAt) ==
    IF kavail
    THEN IF failAt = "set_password"
         THEN [raised |-> TRUE, store |-> st]
         ELSE [raised |-> FALSE, store |-> [st EXCEPT !.kr = Serialize(t)]]
    ELSE CASE failAt \in {"mkdir", "open"} ->
                [raised |-> TRUE, store |-> st]
           [] failAt = "write" ->
                \* write_text opened the file for writing: it is truncated
                [raised |-> TRUE,
                 store |-> [st EXCEPT !.file = EmptyText,
                                      !.mode = IF st.file = NoEntry
                                               THEN ModeUmask ELSE @]]
           [] failAt = "chmod" ->
                [raised |-> TRUE,
                 store |-> [st EXCEPT !.file = Serialize(t),
                                      !.mode = IF st.file = NoEntry
                                               THEN ModeUmask ELSE @]]
           [] OTHER ->
                [raised |-> FALSE,
                 store |-> [st EXCEPT !.file = Serialize(t),
                                      !.mode = ModeOwnerOnly]]

\* the steps of clear at which the backend can raise unexpectedly
ClearFailPoints(kavail) ==
    IF kavail THEN {"none", "delete_password", "unlink"} ELSE {"none", "unlink"}

\* keyring.delete_password: the error it raises, "" when it deletes the entry
DeletePasswordError(kr, failAt) ==
    IF failAt = "delete_password" THEN "KeyringError"
    ELSE IF kr = NoEntry THEN "PasswordDeleteError"
    ELSE ""

\* clear without its inner except clause
ClearAbsorbs_Nothing(err) == FALSE

\* clear: except keyring.errors.PasswordDeleteError: pass
ClearAbsorbs(err) == err = "PasswordDeleteError"

\* clear that stops after deleting a keyring entry
StoreClear_KeyringEntryOnly(st, kavail, failAt) ==
    IF failAt # "none" THEN [raised |-> TRUE, store |-> st]
    ELSE IF kavail /\ st.kr # NoEntry
    THEN [raised |-> FALSE, store |-> [st EXCEPT !.kr = NoEntry]]
    ELSE [raised |-> FALSE,
          store |-> [kr |-> st.kr, file |-> NoEntry, mode |-> NoMode]]

\* TokenStore.clear; failAt: the step that raises unexpectedly, "none" when
\* none does (unlink is only called when the file exists)
StoreClear(st, kavail, failAt) ==
    LET err == IF kavail THEN DeletePasswordError(st.kr, failAt) ELSE ""
        kr1 == IF kavail /\ err = "" THEN NoEntry ELSE st.kr
    IN IF err # "" /\ ~ClearAbsorbs(err)
       THEN [raised |-> TRUE, store |-> st]
       ELSE IF st.file # NoEntry /\ failAt = "unlink"
       THEN [raised |-> TRUE, store |-> [st EXCEPT !.kr = kr1]]
       ELSE [raised |-> FALSE,
             store |-> [kr |-> kr1, file |-> NoEntry, mode |-> NoMode]]

(***************************************************************************)
(* The HTTP transport (requests.Session.post).  A call either raises a     *)
(* transport error or returns a response: a status, a JSON body when the   *)
(* body parses (response.json()), and the raw text.                        *)
(***************************************************************************)
Transport == [kind |-> "transport"]
NoResp == [kind |-> "none"]

JsonResp(status, body) ==
    [kind |-> "http", status |-> status, hasJson |-> TRUE, body |-> body, text |-> ""]

TextResp(status, text) ==
    [kind |-> "http", status |-> status, hasJson |-> FALSE, body |-> <<>>, text |-> text]

\* requests.Response.ok
Ok(resp) == resp.status < 400

Latencies == {0, 1}

SuccessPayloads ==
    { [access_token |-> "new", refresh_token |-> "r2", token_type |-> "bearer",
       expires_in |-> 3600],
      [access_token |-> "ok", expires_in |-> 31],
      [access_token |-> "fresh", refresh_token |-> "r2", expires_in |-> 10],
      [access_token |-> "ok"] }

ErrorCodes == {"authorization_pending", "slow_down", "expired_token", "access_denied"}
ErrorTexts == {"authorization_pending", "Bad Gateway"}

TokenResponses ==
    {JsonResp(200, p) : p \in SuccessPayloads}
    \cup {JsonResp(200, [token_type |-> "bearer"]), TextResp(200, "<html>")}
    \cup {JsonResp(400, [error |-> c]) : c \in ErrorCodes}
    \cup {JsonResp(400, [detail |-> "x"])}
    \cup {TextResp(400, t) : t \in ErrorTexts}
    \cup {Transport}

RefreshResponses ==
    {JsonResp(200, p) : p \in SuccessPayloads}
    \cup {JsonResp(200, [token_type |-> "bearer"]), TextResp(200, "<html>")}
    \cup {JsonResp(400, [error |-> "invalid_grant"]), TextResp(500, "Bad Gateway")}
    \cup {Transport}

\* the revocation endpoint answers with a status and no body of interest
RevokeResponses ==
    {TextResp(200, ""), TextResp(204, ""), TextResp(201, ""),
     JsonResp(400, [error |-> "invalid_token"]), TextResp(500, "Bad Gateway"),
     Transport}

GrantBase ==
    [device_code |-> "device", user_code |-> "user", verification_uri |-> "https://verify"]

DeviceResponses ==
    {JsonResp(200, GrantBase),
     JsonResp(200, GrantBase @@ [expires_in |-> 12]),
     JsonResp(200, GrantBase @@ [expires_in |-> 0]),
     JsonResp(200, GrantBase @@ [interval |-> 0]),
     JsonResp(200, GrantBase @@ [interval |-> -1]),
     JsonResp(200, GrantBase @@ [verification_uri_complete |-> "https://verify?user_code=user"]),
     JsonResp(200, [user_code |-> "user"]),
     TextResp(200, "<html>"),
     TextResp(400, "denied"),
     Transport}

(***************************************************************************)
(* auth_client.py: the decisions of each operation.                        *)
(***************************************************************************)
\* poll_for_token: the error read from a non-success response
PollError(resp) ==
    IF resp.hasJson THEN Get(resp.body, "error", None) ELSE resp.text

\* slow_down that sets the interval instead of adding to it
NextInterval_Overwrite(ivl, error) ==
    IF error = "slow_down" THEN SlowDownIncrement ELSE ivl

\* poll_for_token: the interval after a response with this error
NextInterval(ivl, error) ==
    IF error = "slow_down" THEN ivl + SlowDownIncrement ELSE ivl

\* poll_for_token: what one response does to the loop
PollOutcome(resp, ivl) ==
    IF resp.kind = "transport"
    THEN [next |-> "raise", error |-> "RequestException", reason |-> "", interval |-> ivl]
    ELSE IF Ok(resp)
    THEN IF ~resp.hasJson
         THEN [next |-> "raise", error |-> "ValueError", reason |-> "", interval |-> ivl]
         ELSE IF ~TokenPayloadOk(resp.body)
         THEN [next |-> "raise", error |-> "KeyError", reason |-> "", interval |-> ivl]
         ELSE [next |-> "return", error |-> "", reason |-> "", interval |-> ivl]
    ELSE LET error == PollError(resp) IN
         IF error = "authorization_pending"
         THEN [next |-> "sleep", error |-> "", reason |-> error, interval |-> ivl]
         ELSE IF error = "slow_down"
         THEN [next |-> "sleep", error |-> "", reason |-> error,
               interval |-> NextInterval(ivl, error)]
         ELSE IF error = "expired_token"
         THEN [next |-> "raise", error |-> "DeviceCodeError", reason |-> error,
               interval |-> ivl]
         ELSE [next |-> "raise", error |-> "AuthenticationError", reason |-> error,
               interval |-> ivl]

\* get_session without its try/except around refresh
RefreshOutcome_Uncaught(resp) ==
    IF resp.kind = "transport" THEN [next |-> "raise", error |-> "RequestException"]
    ELSE IF ~Ok(resp) THEN [next |-> "raise", error |-> "TokenRefreshError"]
    ELSE IF ~resp.hasJson THEN [next |-> "raise", error |-> "ValueError"]
    ELSE IF ~TokenPayloadOk(resp.body) THEN [next |-> "raise", error |-> "KeyError"]
    ELSE [next |-> "return", error |-> ""]

\* refresh, as get_session sees it: a Token, TokenRefreshError (caught), or
\* another exception (not caught)
RefreshOutcome(resp) ==
    IF resp.kind = "transport" THEN [next |-> "raise", error |-> "RequestException"]
    ELSE IF ~Ok(resp) THEN [next |-> "caught", error |-> "TokenRefreshError"]
    ELSE IF ~resp.hasJson THEN [next |-> "raise", error |-> "ValueError"]
    ELSE IF ~TokenPayloadOk(resp.body) THEN [next |-> "raise", error |-> "KeyError"]
    ELSE [next |-> "return", error |-> ""]

\* logout without its try/except around revoke
RevokeOutcome_Uncaught(resp) ==
    IF resp.kind = "transport" THEN [next |-> "raise", error |-> "RequestException"]
    ELSE IF resp.status \notin {200, 204}
    THEN [next |-> "raise", error |-> "TokenRevocationError"]
    ELSE [next |-> "return", error |-> ""]

\* revoke, as logout sees it: done, TokenRevocationError (caught), or
\* another exception (not caught)
RevokeOutcome(resp) ==
    IF resp.kind = "transport" THEN [next |-> "raise", error |-> "RequestException"]
    ELSE IF resp.status \notin {200, 204}
    THEN [next |-> "caught", error |-> "TokenRevocationError"]
    ELSE [next |-> "return", error |-> ""]

\* get_session that writes the refreshed fields into the token it loaded
TokenSetAfterRefresh_InPlace(token_set, refreshed) ==
    [token_set EXCEPT !.access_token = refreshed.access_token,
                      !.expires_at = refreshed.expires_at]

\* get_session: its local token_set once refresh has returned; the refreshed
\* token is bound to a local of its own
TokenSetAfterRefresh(token_set, refreshed) == token_set

\* start_device_code
\* get_session that drops the cached token when its refresh fails
StoreOnRefreshError_Cleared(st, kavail) == StoreClear(st, kavail, "none").store

\* get_session's except TokenRefreshError: pass, on the way to login: the
\* store after it
StoreOnRefreshError(st, kavail) == st

DeviceOutcome(resp) ==
    IF resp.kind = "transport" THEN [next |-> "raise", error |-> "RequestException"]
    ELSE IF ~Ok(resp) THEN [next |-> "raise", error |-> "DeviceCodeError"]
    ELSE IF ~resp.hasJson THEN [next |-> "raise", error |-> "ValueError"]
    ELSE IF ~GrantPayloadOk(resp.body) THEN [next |-> "raise", error |-> "KeyError"]
    ELSE [next |-> "grant", error |-> ""]

\* get_session that refreshes whenever it can, valid token or not
GetSessionBranch_RefreshFirst(r, clock) ==
    IF r.raised THEN "raise"
    ELSE IF r.token # NoToken /\ Truthy(r.token.refresh_token) THEN "refresh"
    ELSE IF r.token # NoToken /\ ~(clock >= r.token.expires_at - DefaultSkew) THEN "cached"
    ELSE "login"

\* get_session that treats a failed load as no cached token
GetSessionBranch_LoginOnLoadFailure(r, clock) ==
    IF r.raised THEN "login"
    ELSE IF r.token # NoToken /\ ~(clock >= r.token.expires_at - DefaultSkew) THEN "cached"
    ELSE IF r.token # NoToken /\ Truthy(r.token.refresh_token) THEN "refresh"
    ELSE "login"

\* get_session that tries to refresh with an empty refresh_token
GetSessionBranch_RefreshOnEmpty(r, clock) ==
    IF r.raised THEN "raise"
    ELSE IF r.token # NoToken /\ ~(clock >= r.token.expires_at - DefaultSkew) THEN "cached"
    ELSE IF r.token # NoToken /\ r.token.refresh_token # None THEN "refresh"
    ELSE "login"

\* get_session: what to do with the loaded token
\* (r is what TokenStore.load did: it raised, or returned r.token)
GetSessionBranch(r, clock) ==
    IF r.raised THEN "raise"
    ELSE IF r.token # NoToken /\ ~TokenIsExpired(r.token, DefaultSkew, clock) THEN "cached"
    ELSE IF r.token # NoToken /\ Truthy(r.token.refresh_token) THEN "refresh"
    ELSE "login"

\* a sleep that returns at once
SleepUntil_NoWait(clock, secs) == clock

\* time.sleep(secs): the clock when it returns
SleepUntil(clock, secs) == clock + secs

\* webbrowser.open launches a browser, returns False, or raises
BrowserOutcomes == {"opened", "refused", "raised"}

\* _open_browser that puts the grant's device_code into the URL
BrowserUrl_WithDeviceCode(g) == g.verification_uri \o "?device_code=" \o g.device_code

\* _open_browser: the URL handed to webbrowser.open
BrowserUrl(g) ==
    IF Truthy(g.verification_uri_complete)
    THEN g.verification_uri_complete ELSE g.verification_uri

\* the client's own settings, by their defaults
ClientId == "tradingagents-cli"
Scope == "openid profile offline_access"

\* the form data of each request, a dict
DeviceCodeRequest == [client_id |-> ClientId, scope |-> Scope]

TokenRequest(g) ==
    [grant_type |-> "urn:ietf:params:oauth:grant-type:device_code",
     device_code |-> g.device_code,
     client_id |-> ClientId]

RefreshRequest(refresh_token) ==
    [grant_type |-> "refresh_token", refresh_token |-> refresh_token,
     client_id |-> ClientId]

RevokeRequest(token) == [token |-> token, client_id |-> ClientId]

\* no request sent to an endpoint yet; webbrowser.open not called
NoReq == [absent |-> "request"]
NotOpened == "<not opened>"

NoReqs ==
    [refresh |-> NoReq, device |-> NoReq, token |-> NoReq, revoke |-> NoReq,
     browser |-> NotOpened]

(***************************************************************************)
(* The record of one call: the names of the things it did, in order: the   *)
(* collaborator calls ("load", "save", "http_refresh", "http_device",      *)
(* "http_token", "http_revoke", "sleep", "browser", "clear") and, after the *)
(* call that raised it, the name of each exception raised inside the       *)
(* operation.                                                              *)
(***************************************************************************)
Count(tr, ev) == Cardinality({i \in 1..Len(tr) : tr[i] = ev})

NoResps == [refresh |-> NoResp, device |-> NoResp, token |-> NoResp, revoke |-> NoResp]

NoResult == [kind |-> "none", token |-> NoToken, error |-> "", reason |-> ""]
Returned(t) == [kind |-> "returned", token |-> t, error |-> "", reason |-> ""]
Raised(e, why) == [kind |-> "raised", token |-> NoToken, error |-> e, reason |-> why]

(***************************************************************************)
(* Initial state: a fresh client over a store a previous run left behind.  *)
(***************************************************************************)
StoredToken(exp, refresh) ==
    [access_token |-> "access", refresh_token |-> refresh, token_type |-> "bearer",
     scope |-> None, expires_at |-> exp]

InitEntries ==
    {NoEntry, Garbage}
    \cup {Serialize(StoredToken(e, "refresh")) : e \in {-300, 30, 31, 61}}
    \cup {Serialize(StoredToken(-300, r)) : r \in {None, ""}}

\* stored text that parses as JSON but lacks a field _deserialize subscripts
NoExpiry == [kind |-> "json", obj |-> [access_token |-> "access"]]
NoAccess == [kind |-> "json", obj |-> [expires_at |-> IsoFormat(61)]]

OldToken ==
    [access_token |-> "old", refresh_token |-> None, token_type |-> "bearer",
     scope |-> None, expires_at |-> 61]

\* the stores a previous run or another program can leave behind
InitStores(kavail) ==
    IF kavail
    THEN {[kr |-> e, file |-> NoEntry, mode |-> NoMode] : e \in InitEntries}
         \cup {[kr |-> e, file |-> Serialize(OldToken), mode |-> ModeOwnerOnly] :
                  e \in {NoEntry, EmptyText, Garbage, NoExpiry,
                         Serialize(StoredToken(61, "refresh"))}}
         \cup {[kr |-> EmptyText, file |-> NoEntry, mode |-> NoMode]}
    ELSE {[kr |-> NoEntry, file |-> e,
           mode |-> IF e = NoEntry THEN NoMode ELSE ModeOwnerOnly] :
            e \in InitEntries \cup {EmptyText, NoExpiry, NoAccess}}

\* lastSaved before the caller's first save or clear
Unknown == [kind |-> "unknown"]

\* the processes that share the store: two that save, one that loads; none
\* of them has started
Writers == {"writer1", "writer2"}
Reader == "reader"

\* pc: where each process is; token: the argument of each save; wrote: the
\* processes that have written their text, in order; before: what load
\* returned before the first save began; seen: how the reader's load ended
NoProcs ==
    [pc |-> [p \in Writers \cup {Reader} |-> "idle"],
     token |-> [w \in Writers |-> NoToken],
     wrote |-> <<>>,
     before |-> NoResult,
     seen |-> NoResult]

Init ==
    /\ now = 0
    /\ keyringAvail \in BOOLEAN
    /\ store \in InitStores(keyringAvail)
    /\ pc = "idle"
    /\ op = "none"
    /\ openBrowser = FALSE
    /\ tokenSet = NoToken
    /\ grant = NoGrant
    /\ interval = 0
    /\ result = NoResult
    /\ trace = <<>>
    /\ calledAt = 0
    /\ lastResp = NoResps
    /\ lastReqAt = 0
    /\ lastGap = 0
    /\ lastWait = 0
    /\ slowDowns = 0
    /\ lastSaved = Unknown
    /\ lastReq = NoReqs
    /\ procs = NoProcs

(***************************************************************************)
(* Steps.                                                                  *)
(***************************************************************************)
StandaloneGrants ==
    {[device_code |-> "device", user_code |-> "user",
      verification_uri |-> "https://verify", verification_uri_complete |-> None,
      expires_at |-> now + e, interval |-> i] : e \in {-1, 12, 300}, i \in {0, 5}}

NoPollObs ==
    /\ lastReqAt' = 0
    /\ lastGap' = 0
    /\ lastWait' = 0
    /\ slowDowns' = 0

\* the wall clock moves before the caller makes its call
IdleGaps == {30}

Tick ==
    /\ pc = "idle"
    /\ \E d \in IdleGaps : now + d <= MaxNow /\ now' = now + d
    /\ UNCHANGED <<keyringAvail, store, pc, op, openBrowser, tokenSet, grant,
                   interval, result, trace, calledAt, lastResp, pollObs, lastSaved,
                   lastReq, procs>>

\* get_session up to its first request: load, then return the cached token,
\* go on to refresh, or go on to login
GetSession ==
    /\ pc = "idle"
    /\ \E ioFail \in BOOLEAN :
         LET r == StoreLoad(store, keyringAvail, ioFail)
             branch == GetSessionBranch(r, now)
         IN /\ tokenSet' = r.token
            /\ trace' = IF r.raised THEN <<"load", "TokenStorageError">> ELSE <<"load">>
            /\ pc' = CASE branch = "refresh" -> "refresh"
                       [] branch = "login" -> "start_device"
                       [] OTHER -> "done"
            /\ result' = CASE branch = "raise" -> Raised("TokenStorageError", "load")
                           [] branch = "cached" -> Returned(r.token)
                           [] OTHER -> NoResult
    /\ op' = "get_session"
    /\ openBrowser' = TRUE
    /\ calledAt' = now
    /\ grant' = NoGrant
    /\ interval' = 0
    /\ lastResp' = NoResps
    /\ lastReq' = NoReqs
    /\ NoPollObs
    /\ UNCHANGED <<now, keyringAvail, store, lastSaved, procs>>

\* get_session: refresh(token_set.refresh_token), then save and return, or
\* fall through to login on TokenRefreshError
Refresh ==
    /\ pc = "refresh"
    /\ \E resp \in RefreshResponses, lat \in Latencies,
          failAt \in SaveFailPoints(keyringAvail) :
         LET o == RefreshOutcome(resp)
             t == now + lat
             refreshed == TokenFromResponse(resp.body, t)
             saved == StoreSave(store, keyringAvail, refreshed, failAt)
             sent == Append(trace, "http_refresh")
         IN /\ t <= MaxNow
            /\ (o.next # "return" => failAt = "none")
            /\ now' = t
            /\ lastResp' = [lastResp EXCEPT !.refresh = resp]
            /\ lastReq' = [lastReq EXCEPT
                              !.refresh = RefreshRequest(tokenSet.refresh_token)]
            /\ CASE o.next = "return" ->
                      /\ trace' = IF saved.raised
                                  THEN sent \o <<"save", "TokenStorageError">>
                                  ELSE sent \o <<"save">>
                      /\ store' = saved.store
                      /\ pc' = "done"
                      /\ result' = IF saved.raised
                                   THEN Raised("TokenStorageError", "save")
                                   ELSE Returned(refreshed)
                      /\ tokenSet' = TokenSetAfterRefresh(tokenSet, refreshed)
                 [] o.next = "caught" ->
                      /\ trace' = Append(sent, o.error)
                      /\ pc' = "start_device"
                      /\ store' = StoreOnRefreshError(store, keyringAvail)
                      /\ UNCHANGED <<result, tokenSet>>
                 [] OTHER ->
                      /\ trace' = Append(sent, o.error)
                      /\ pc' = "done"
                      /\ result' = Raised(o.error, "refresh")
                      /\ UNCHANGED <<store, tokenSet>>
    /\ UNCHANGED <<keyringAvail, op, openBrowser, grant, interval,
                   calledAt, pollObs, lastSaved, procs>>

\* login called by the caller
Login ==
    /\ pc = "idle"
    /\ pc' = "start_device"
    /\ op' = "login"
    /\ openBrowser' \in BOOLEAN
    /\ calledAt' = now
    /\ trace' = <<>>
    /\ result' = NoResult
    /\ tokenSet' = NoToken
    /\ grant' = NoGrant
    /\ interval' = 0
    /\ lastResp' = NoResps
    /\ lastReq' = NoReqs
    /\ NoPollObs
    /\ UNCHANGED <<now, keyringAvail, store, lastSaved, procs>>

\* login: start_device_code, _open_browser, and poll_for_token's first line
StartDeviceCode ==
    /\ pc = "start_device"
    /\ \E resp \in DeviceResponses, lat \in Latencies, b \in BrowserOutcomes :
         LET o == DeviceOutcome(resp)
             t == now + lat
             g == GrantFromResponse(resp.body, t)
             sent == Append(trace, "http_device")
             opens == o.next = "grant" /\ openBrowser
         IN /\ t <= MaxNow
            /\ (~opens => b = "opened")
            /\ now' = t
            /\ lastResp' = [lastResp EXCEPT !.device = resp]
            /\ lastReq' = [lastReq EXCEPT
                              !.device = DeviceCodeRequest,
                              !.browser = IF opens THEN BrowserUrl(g) ELSE NotOpened]
            /\ IF o.next = "grant"
               THEN /\ grant' = g
                    /\ interval' = g.interval
                    /\ IF opens /\ b = "raised"
                       THEN /\ trace' = sent \o <<"browser", "webbrowser.Error">>
                            /\ pc' = "done"
                            /\ result' = Raised("webbrowser.Error", "_open_browser")
                       ELSE /\ trace' = IF opens THEN Append(sent, "browser") ELSE sent
                            /\ pc' = "poll"
                            /\ UNCHANGED result
               ELSE /\ trace' = Append(sent, o.error)
                    /\ pc' = "done"
                    /\ result' = Raised(o.error, "start_device_code")
                    /\ UNCHANGED <<grant, interval>>
    /\ UNCHANGED <<keyringAvail, store, op, openBrowser, tokenSet, calledAt, pollObs,
                   lastSaved, procs>>

\* poll_for_token(grant) called by the caller with one of these grants
CallPollForToken(grants) ==
    /\ pc = "idle"
    /\ \E g \in grants : grant' = g /\ interval' = g.interval
    /\ pc' = "poll"
    /\ op' = "poll_for_token"
    /\ calledAt' = now
    /\ trace' = <<>>
    /\ result' = NoResult
    /\ tokenSet' = NoToken
    /\ lastResp' = NoResps
    /\ lastReq' = NoReqs
    /\ NoPollObs
    /\ UNCHANGED <<now, keyringAvail, store, openBrowser, lastSaved, procs>>

\* poll_for_token called by the caller with a grant of its own
PollForToken == CallPollForToken(StandaloneGrants)

\* poll_for_token: the loop condition fails
PollExpired ==
    /\ pc = "poll"
    /\ GrantIsExpired(grant, now)
    /\ pc' = "done"
    /\ trace' = Append(trace, "DeviceCodeError")
    /\ result' = Raised("DeviceCodeError", "Device code expired before polling completed.")
    /\ UNCHANGED <<now, keyringAvail, store, op, openBrowser, tokenSet, grant,
                   interval, calledAt, lastResp, pollObs, lastSaved,
                   lastReq, procs>>

\* poll_for_token: one pass of the loop body up to its sleep; on a Token,
\* login's save and return
PollRequest ==
    /\ pc = "poll"
    /\ ~GrantIsExpired(grant, now)
    /\ \E resp \in TokenResponses, lat \in Latencies,
          failAt \in SaveFailPoints(keyringAvail) :
         LET o == PollOutcome(resp, interval)
             t == now + lat
             token == TokenFromResponse(resp.body, t)
             saved == StoreSave(store, keyringAvail, token, failAt)
             saves == op # "poll_for_token" /\ o.next = "return"
             sent == Append(trace, "http_token")
         IN /\ t <= MaxNow
            /\ (~saves => failAt = "none")
            /\ (o.next = "sleep" => Count(trace, "http_token") < MaxPolls)
            /\ now' = t
            /\ lastResp' = [lastResp EXCEPT !.token = resp]
            /\ lastReq' = [lastReq EXCEPT !.token = TokenRequest(grant)]
            /\ lastReqAt' = now
            /\ lastGap' = IF Count(trace, "http_token") > 0 THEN now - lastReqAt ELSE 0
            /\ slowDowns' = IF resp.kind = "http" /\ ~Ok(resp)
                                  /\ PollError(resp) = "slow_down"
                            THEN slowDowns + 1 ELSE slowDowns
            /\ interval' = o.interval
            /\ CASE o.next = "return" /\ saves ->
                      /\ trace' = IF saved.raised
                                  THEN sent \o <<"save", "TokenStorageError">>
                                  ELSE sent \o <<"save">>
                      /\ store' = saved.store
                      /\ pc' = "done"
                      /\ result' = IF saved.raised
                                   THEN Raised("TokenStorageError", "save")
                                   ELSE Returned(token)
                 [] o.next = "return" /\ ~saves ->
                      /\ trace' = sent
                      /\ pc' = "done"
                      /\ result' = Returned(token)
                      /\ UNCHANGED store
                 [] o.next = "sleep" ->
                      /\ trace' = sent
                      /\ pc' = "sleep"
                      /\ UNCHANGED <<store, result>>
                 [] OTHER ->
                      /\ trace' = Append(sent, o.error)
                      /\ pc' = "done"
                      /\ result' = Raised(o.error, o.reason)
                      /\ UNCHANGED store
    /\ UNCHANGED <<keyringAvail, op, openBrowser, tokenSet, grant, calledAt, lastWait,
                   lastSaved, procs>>

\* poll_for_token: time.sleep(interval), which refuses a negative length
Sleep ==
    /\ pc = "sleep"
    /\ IF interval < 0
       THEN /\ pc' = "done"
            /\ result' = Raised("ValueError", "sleep length must be non-negative")
            /\ trace' = trace \o <<"sleep", "ValueError">>
            /\ UNCHANGED now
       ELSE /\ SleepUntil(now, interval) <= MaxNow
            /\ now' = SleepUntil(now, interval)
            /\ pc' = "poll"
            /\ trace' = Append(trace, "sleep")
            /\ UNCHANGED result
    /\ lastWait' = interval
    /\ UNCHANGED <<keyringAvail, store, op, openBrowser, tokenSet, grant, interval,
                   calledAt, lastResp, lastReqAt, lastGap, slowDowns, lastSaved,
                   lastReq, procs>>

\* logout up to its request: load, then revoke when a token is cached,
\* else clear
Logout ==
    /\ pc = "idle"
    /\ \E ioFail \in BOOLEAN, failAt \in ClearFailPoints(keyringAvail) :
         LET r == StoreLoad(store, keyringAvail, ioFail)
             c == StoreClear(store, keyringAvail, failAt)
         IN /\ tokenSet' = r.token
            /\ CASE r.raised ->
                      /\ failAt = "none"
                      /\ trace' = <<"load", "TokenStorageError">>
                      /\ pc' = "done"
                      /\ result' = Raised("TokenStorageError", "load")
                      /\ UNCHANGED store
                 [] ~r.raised /\ r.token # NoToken ->
                      /\ failAt = "none"
                      /\ trace' = <<"load">>
                      /\ pc' = "revoke"
                      /\ result' = NoResult
                      /\ UNCHANGED store
                 [] OTHER ->
                      /\ trace' = IF c.raised
                                  THEN <<"load", "clear", "TokenStorageError">>
                                  ELSE <<"load", "clear">>
                      /\ pc' = "done"
                      /\ result' = IF c.raised
                                   THEN Raised("TokenStorageError", "clear")
                                   ELSE Returned(NoToken)
                      /\ store' = c.store
    /\ op' = "logout"
    /\ calledAt' = now
    /\ UNCHANGED <<now, keyringAvail, openBrowser, grant, interval, lastResp, pollObs,
                   lastSaved,
                   lastReq, procs>>

\* logout: revoke(token_set.access_token), then clear, whether revoke
\* returned or raised TokenRevocationError
Revoke ==
    /\ pc = "revoke"
    /\ \E resp \in RevokeResponses, lat \in Latencies,
          failAt \in ClearFailPoints(keyringAvail) :
         LET o == RevokeOutcome(resp)
             t == now + lat
             c == StoreClear(store, keyringAvail, failAt)
             sent == Append(trace, "http_revoke")
             after == IF o.next = "caught" THEN Append(sent, o.error) ELSE sent
         IN /\ t <= MaxNow
            /\ now' = t
            /\ lastResp' = [lastResp EXCEPT !.revoke = resp]
            /\ lastReq' = [lastReq EXCEPT
                              !.revoke = RevokeRequest(tokenSet.access_token)]
            /\ pc' = "done"
            /\ IF o.next = "raise"
               THEN /\ failAt = "none"
                    /\ trace' = Append(sent, o.error)
                    /\ result' = Raised(o.error, "revoke")
                    /\ UNCHANGED store
               ELSE /\ trace' = IF c.raised
                                 THEN after \o <<"clear", "TokenStorageError">>
                                 ELSE Append(after, "clear")
                    /\ result' = IF c.raised
                                  THEN Raised("TokenStorageError", "clear")
                                  ELSE Returned(NoToken)
                    /\ store' = c.store
    /\ UNCHANGED <<keyringAvail, op, openBrowser, tokenSet, grant, interval, calledAt,
                   pollObs, lastSaved, procs>>

\* the callers of discover_models: the test calls it on an AuthClient,
\* cli.utils.load_model_catalog calls it inside a try
DiscoverCallers == {"discover_models", "load_model_catalog"}

\* client.discover_models(): class AuthClient defines no such attribute, so
\* the call raises AttributeError before anything is loaded or sent;
\* load_model_catalog turns it into an AuthenticationError
DiscoverModels ==
    /\ pc = "idle"
    /\ \E caller \in DiscoverCallers :
         /\ op' = caller
         /\ trace' = <<"AttributeError">>
         /\ result' = IF caller = "load_model_catalog"
                      THEN Raised("AuthenticationError",
                                  "Unexpected error while fetching models")
                      ELSE Raised("AttributeError", "discover_models")
    /\ pc' = "done"
    /\ calledAt' = now
    /\ UNCHANGED <<now, keyringAvail, store, openBrowser, tokenSet, grant, interval,
                   lastResp, pollObs, lastSaved,
                   lastReq, procs>>

(***************************************************************************)
(* The caller works on the TokenStore itself: up to MaxStoreOps calls of   *)
(* save, load and clear, one after the other.                              *)
(***************************************************************************)
SaveTokens ==
    {[access_token |-> "access", refresh_token |-> "refresh", token_type |-> "bearer",
      scope |-> "scope", expires_at |-> 300],
     [access_token |-> "new", refresh_token |-> None, token_type |-> "mac",
      scope |-> None, expires_at |-> 61]}

StoreCalls(tr) == Count(tr, "save") + Count(tr, "load") + Count(tr, "clear")

\* the caller may make a call on the store
AtStore == pc \in {"idle", "store"} /\ StoreCalls(trace) < MaxStoreOps

\* the calls on the store the caller has made so far
Calls == IF pc = "idle" THEN <<>> ELSE trace

StoreFrame ==
    /\ pc' = "store"
    /\ op' = "store"
    /\ UNCHANGED <<now, keyringAvail, openBrowser, tokenSet, grant, interval, calledAt,
                   lastResp, pollObs,
                   lastReq, procs>>

\* TokenStore.save(t)
Save ==
    /\ AtStore
    /\ \E t \in SaveTokens, failAt \in SaveFailPoints(keyringAvail) :
         LET r == StoreSave(store, keyringAvail, t, failAt)
         IN /\ store' = r.store
            /\ trace' = IF r.raised THEN Calls \o <<"save", "TokenStorageError">>
                                    ELSE Append(Calls, "save")
            /\ result' = IF r.raised THEN Raised("TokenStorageError", failAt)
                                     ELSE Returned(NoToken)
            /\ lastSaved' = IF r.raised THEN Unknown ELSE t
    /\ StoreFrame

\* TokenStore.load()
Load ==
    /\ AtStore
    /\ \E ioFail \in BOOLEAN :
         LET r == StoreLoad(store, keyringAvail, ioFail)
         IN /\ trace' = IF r.raised THEN Calls \o <<"load", "TokenStorageError">>
                                    ELSE Append(Calls, "load")
            /\ result' = IF r.raised
                         THEN Raised("TokenStorageError",
                                     IF ioFail THEN "OSError" ELSE "deserialize")
                         ELSE Returned(r.token)
    /\ UNCHANGED <<store, lastSaved>>
    /\ StoreFrame

\* TokenStore.clear()
Clear ==
    /\ AtStore
    /\ \E failAt \in ClearFailPoints(keyringAvail) :
         LET r == StoreClear(store, keyringAvail, failAt)
         IN /\ store' = r.store
            /\ trace' = IF r.raised THEN Calls \o <<"clear", "TokenStorageError">>
                                    ELSE Append(Calls, "clear")
            /\ result' = IF r.raised THEN Raised("TokenStorageError", failAt)
                                     ELSE Returned(NoToken)
            /\ lastSaved' = IF r.raised THEN Unknown ELSE NoToken
    /\ StoreFrame

Next ==
    \/ Tick
    \/ Logout
    \/ Revoke
    \/ DiscoverModels
    \/ Save
    \/ Load
    \/ Clear
    \/ GetSession
    \/ Refresh
    \/ Login
    \/ StartDeviceCode
    \/ PollForToken
    \/ PollExpired
    \/ PollRequest
    \/ Sleep

Spec == Init /\ [][Next]_vars

(***************************************************************************)
(* poll_for_token on its own, under the conditions its termination rests   *)
(* on: the grant runs out after a finite time, here within MaxPolls        *)
(* seconds, every request returns a response, and the clock has moved on   *)
(* when it does.  The caller is one thread: while a statement of the loop  *)
(* can run it does run, which is the weak fairness of each step.           *)
(***************************************************************************)
ShortGrants ==
    {[device_code |-> "device", user_code |-> "user",
      verification_uri |-> "https://verify", verification_uri_complete |-> None,
      expires_at |-> now + e, interval |-> i] : e \in 1..MaxPolls, i \in {0, 5}}

PollShortGrant == CallPollForToken(ShortGrants)

\* one pass of the loop whose request returns a response and takes time
TimedRequest ==
    /\ Count(trace, "http_token") < MaxPolls
    /\ PollRequest
    /\ now' > now
    /\ lastResp'.token.kind = "http"

LiveNext ==
    \/ PollShortGrant
    \/ PollExpired
    \/ TimedRequest
    \/ Sleep

LiveSpec ==
    /\ Init
    /\ [][LiveNext]_vars
    /\ WF_vars(PollExpired)
    /\ WF_vars(TimedRequest)
    /\ WF_vars(Sleep)

(***************************************************************************)
(* Several processes on one store.  Each is a run of the program with its  *)
(* own TokenStore over the same keyring entry and the same file; nothing   *)
(* in save or load locks either, so the steps of the processes interleave  *)
(* at the calls save and load make on the keyring and the file system.     *)
(***************************************************************************)
\* the length of a value in json.dumps's text
JsonLen(v) == IF v = None THEN 4 ELSE Len(v) + 2

\* the length of a stored text, less the part that the texts of all tokens
\* share (the braces, the keys and the timestamp)
TextLen(s) ==
    IF s.kind = "json"
    THEN JsonLen(s.obj["access_token"]) + JsonLen(s.obj["refresh_token"])
         + JsonLen(s.obj["token_type"]) + JsonLen(s.obj["scope"])
    ELSE 0

\* a file that begins with one text and goes on with the end of a longer one
TornText(head, tail) == [kind |-> "torn", head |-> head, tail |-> tail]

\* what the file holds after data is written at offset 0 through a
\* descriptor opened before the current content was written
WriteAtStart(data, content) ==
    IF content.kind = "json" /\ TextLen(content) > TextLen(data)
    THEN TornText(data, content)
    ELSE data

\* how a load of this store ends
LoadResult(st, kavail) ==
    LET r == StoreLoad(st, kavail, FALSE)
    IN IF r.raised THEN Raised("TokenStorageError", "deserialize")
       ELSE Returned(r.token)

RaceFrame ==
    UNCHANGED <<now, keyringAvail, pc, op, openBrowser, tokenSet, grant, interval,
                result, trace, calledAt, lastResp, pollObs, lastSaved, lastReq>>

\* save(t) up to the end of its first call that changes the store: the
\* whole of keyring.set_password, or parent.mkdir and write_text's open of
\* the file for writing, which creates or truncates it
SaveBegin(w) ==
    /\ procs.pc[w] = "idle"
    /\ \E t \in SaveTokens :
         LET started == [procs EXCEPT
                           !.token[w] = t,
                           !.before = IF \A v \in Writers : procs.pc[v] = "idle"
                                      THEN LoadResult(store, keyringAvail) ELSE @]
         IN IF keyringAvail
            THEN /\ store' = [store EXCEPT !.kr = Serialize(t)]
                 /\ procs' = [started EXCEPT !.pc[w] = "done",
                                             !.wrote = Append(@, w)]
            ELSE /\ store' = [store EXCEPT
                                !.file = EmptyText,
                                !.mode = IF store.file = NoEntry THEN ModeUmask ELSE @]
                 /\ procs' = [started EXCEPT !.pc[w] = "opened"]
    /\ RaceFrame

\* save: write_text writes the text and closes the file
SaveWrite(w) ==
    /\ procs.pc[w] = "opened"
    /\ store' = [store EXCEPT
                   !.file = WriteAtStart(Serialize(procs.token[w]), store.file)]
    /\ procs' = [procs EXCEPT !.pc[w] = "written", !.wrote = Append(@, w)]
    /\ RaceFrame

\* save: os.chmod(file_path, 0o600), and the return
SaveChmod(w) ==
    /\ procs.pc[w] = "written"
    /\ store' = [store EXCEPT !.mode = ModeOwnerOnly]
    /\ procs' = [procs EXCEPT !.pc[w] = "done"]
    /\ RaceFrame

\* load() in the reader
ConcurrentLoad ==
    /\ procs.pc[Reader] = "idle"
    /\ procs' = [procs EXCEPT !.pc[Reader] = "done",
                              !.seen = LoadResult(store, keyringAvail)]
    /\ UNCHANGED store
    /\ RaceFrame

\* the stores the processes start on: a Token saved by an earlier run, or none
RaceStores(kavail) ==
    IF kavail
    THEN {[kr |-> e, file |-> NoEntry, mode |-> NoMode] :
            e \in {NoEntry, Serialize(OldToken)}}
    ELSE {[kr |-> NoEntry, file |-> NoEntry, mode |-> NoMode],
          [kr |-> NoEntry, file |-> Serialize(OldToken), mode |-> ModeOwnerOnly]}

RaceInit ==
    /\ Init
    /\ store \in RaceStores(keyringAvail)

RaceNext ==
    \/ \E w \in Writers : SaveBegin(w)
    \/ \E w \in Writers : SaveWrite(w)
    \/ \E w \in Writers : SaveChmod(w)
    \/ ConcurrentLoad

RaceSpec == RaceInit /\ [][RaceNext]_vars

(***************************************************************************)
(* Properties.                                                             *)
(***************************************************************************)
\* what load returns for the store as it is now
Held == StoreLoad(store, keyringAvail, FALSE)

\* a token is expired at `clock` under the default 30-second skew
ExpiredAt(t, clock) == clock >= t.expires_at - 30

\* C1: when get_session loads a token that is not expired under the default
\* 30-second skew, the call is over at once: it returns that token, equal to
\* what the store holds, and has done nothing but the load (no HTTP request,
\* no save, no clear).
C1_CachedTokenReturnedUntouched ==
    (op = "get_session" /\ tokenSet # NoToken /\ ~ExpiredAt(tokenSet, calledAt))
    => /\ pc = "done"
       /\ result = Returned(tokenSet)
       /\ trace = <<"load">>
       /\ ~Held.raised
       /\ Held.token = result.token
       /\ now = calledAt

C1_Witness ==
    /\ op = "get_session"
    /\ pc = "done"
    /\ result.kind = "returned"
    /\ result.token.access_token = "access"
    /\ ~ExpiredAt(result.token, now)
    /\ trace = <<"load">>

\* get_session loaded an expired token that has a refresh_token
RefreshCase ==
    /\ op = "get_session"
    /\ tokenSet # NoToken
    /\ ExpiredAt(tokenSet, calledAt)
    /\ tokenSet.refresh_token # None
    /\ tokenSet.refresh_token # ""

\* a response that parses into a Token
TokenBearing(r) ==
    /\ r.kind = "http"
    /\ r.status < 400
    /\ r.hasJson
    /\ "access_token" \in DOMAIN r.body

\* C2: with an expired cached token that has a refresh_token, get_session
\* sends exactly one refresh request, right after the load, and never a
\* second one.  If the response parses into a Token, the call ends there
\* with no device-code request, and the Token it returns is the parsed one
\* and is what the store then holds.  If the response has a non-success
\* status, one device-code request follows and polling comes only after it.
C2_OneRefreshThenLoginOnce ==
    /\ Count(trace, "http_refresh") <= 1
    /\ RefreshCase =>
         /\ Count(trace, "http_refresh") = (IF pc = "refresh" THEN 0 ELSE 1)
         /\ pc # "refresh" => trace[2] = "http_refresh"
         /\ TokenBearing(lastResp.refresh) =>
              /\ pc = "done"
              /\ Count(trace, "http_device") = 0
              /\ Count(trace, "http_token") = 0
              /\ result.kind = "returned" =>
                   /\ result.token = TokenFromResponse(lastResp.refresh.body, now)
                   /\ result.token.access_token = lastResp.refresh.body["access_token"]
                   /\ ~Held.raised
                   /\ Held.token = result.token
         /\ (lastResp.refresh.kind = "http" /\ lastResp.refresh.status >= 400) =>
              /\ Count(trace, "http_device") = (IF pc = "start_device" THEN 0 ELSE 1)
              /\ pc \in {"start_device", "poll", "sleep", "done"}
              /\ Count(trace, "http_token") > 0 => lastResp.device.kind = "http"

C2_Witness ==
    /\ RefreshCase
    /\ pc = "done"
    /\ result.kind = "returned"
    /\ result.token.access_token = "fresh"
    /\ Held.token = result.token
    /\ trace = <<"load", "http_refresh", "save">>

\* C3, as claimed: every Token get_session returns is not expired (default
\* skew) at the moment of return.
C3_ReturnedTokenIsValid ==
    (op = "get_session" /\ pc = "done" /\ result.kind = "returned")
    => ~ExpiredAt(result.token, now)

\* the response the returned Token was parsed from
SourceBody ==
    IF Count(trace, "http_token") > 0 THEN lastResp.token.body ELSE lastResp.refresh.body

\* C3, amended: a Token get_session returns from the cache is not expired at
\* the moment of return; a Token from a refresh or login response is
\* returned unchecked, expires at parse time + expires_in (0 when omitted),
\* and is not expired at return exactly when expires_in exceeds 30.
C3_ValidFromCacheOrLongLived ==
    (op = "get_session" /\ pc = "done" /\ result.kind = "returned")
    => IF trace = <<"load">>
       THEN ~ExpiredAt(result.token, now)
       ELSE LET expires_in == IF "expires_in" \in DOMAIN SourceBody
                              THEN SourceBody["expires_in"] ELSE 0
            IN /\ result.token.expires_at = now + expires_in
               /\ ExpiredAt(result.token, now) <=> expires_in <= 30

C3_Witness ==
    /\ op = "get_session"
    /\ pc = "done"
    /\ result.kind = "returned"
    /\ trace # <<"load">>
    /\ "expires_in" \notin DOMAIN SourceBody
    /\ ExpiredAt(result.token, now)

\* C4, as claimed: whatever way the refresh attempt fails (non-success
\* status, transport failure, unparsable success response), get_session
\* does not surface the failure and goes on to a full login.
C4_AnyRefreshFailureAbsorbed ==
    (op = "get_session" /\ lastResp.refresh # NoResp /\ ~TokenBearing(lastResp.refresh))
    => /\ ~(pc = "done" /\ Count(trace, "http_device") = 0)
       /\ result.reason # "refresh"

\* C5: in get_session and login, a TokenStorageError (from load or save) or
\* a DeviceCodeError (from start_device_code or poll_for_token) raised
\* inside the operation is the last thing that happens: the operation ends
\* raising that same error, so nothing follows a failed load.
C5_StorageAndDeviceErrorsPropagate ==
    op \in {"get_session", "login"} =>
      \A i \in 1..Len(trace) :
         trace[i] \in {"TokenStorageError", "DeviceCodeError"} =>
            /\ i = Len(trace)
            /\ pc = "done"
            /\ result.kind = "raised"
            /\ result.error = trace[i]

C5_Witness ==
    /\ op = "get_session"
    /\ pc = "done"
    /\ trace = <<"load", "TokenStorageError">>
    /\ result.error = "TokenStorageError"

\* the error code of a non-success response whose body is a JSON object
JsonError(r) ==
    IF r.hasJson /\ "error" \in DOMAIN r.body THEN r.body["error"] ELSE None

\* C6: within one poll_for_token call, two consecutive token requests are
\* at least the grant's interval apart, and a response that parses into a
\* Token ends the call at once: poll_for_token returns the Token parsed
\* from it (under login, after the save), with nothing requested after it.
C6_WaitsBetweenRequestsThenReturns ==
    /\ Count(trace, "http_token") >= 2 => lastGap >= grant.interval
    /\ Count(trace, "http_token") >= 2 =>
         Count(trace, "sleep") >= Count(trace, "http_token") - 1
    /\ TokenBearing(lastResp.token) =>
         /\ pc = "done"
         /\ lastReqAt <= now
         /\ op = "poll_for_token" =>
              /\ result.kind = "returned"
              /\ result.token.access_token = lastResp.token.body["access_token"]
              /\ result.token = TokenFromResponse(lastResp.token.body, now)
              /\ trace[Len(trace)] = "http_token"

C6_Witness ==
    /\ op = "poll_for_token"
    /\ pc = "done"
    /\ result.kind = "returned"
    /\ Count(trace, "http_token") = 3
    /\ slowDowns = 0
    /\ grant.interval = 5
    /\ lastGap >= 5

\* C7: within one poll_for_token call, the effective interval is always the
\* grant's interval plus 5 for each slow_down answered so far, and every
\* sleep lasts exactly that long: authorization_pending leaves it alone.
C7_SlowDownAddsFiveEachTime ==
    grant # NoGrant =>
      /\ interval = grant.interval + 5 * slowDowns
      /\ (Count(trace, "sleep") > 0 /\ pc # "sleep") =>
            lastWait = grant.interval + 5 * slowDowns

C7_Witness ==
    /\ pc = "poll"
    /\ slowDowns = 2
    /\ Count(trace, "sleep") = 3
    /\ grant.interval = 5
    /\ lastWait = 15

\* C8: poll_for_token sends no token request at or after the grant's
\* expiry: a grant already expired at the call ends in DeviceCodeError with
\* no request at all, and a call that ends right after a completed sleep
\* ends in DeviceCodeError, the grant having expired, with no request after
\* the sleep.
C8_NoRequestOnceExpired ==
    /\ Count(trace, "http_token") > 0 => lastReqAt < grant.expires_at
    /\ (op = "poll_for_token" /\ calledAt >= grant.expires_at) =>
         /\ Count(trace, "http_token") = 0
         /\ pc \in {"poll", "done"}
         /\ pc = "done" => result.error = "DeviceCodeError"
    /\ (pc = "done" /\ Len(trace) >= 2 /\ trace[Len(trace) - 1] = "sleep"
        /\ trace[Len(trace)] \notin {"http_token", "ValueError"}) =>
         /\ result.error = "DeviceCodeError"
         /\ now >= grant.expires_at
         /\ lastReqAt < grant.expires_at

C8_Witness ==
    /\ pc = "done"
    /\ Count(trace, "http_token") >= 2
    /\ Len(trace) >= 2
    /\ trace[Len(trace) - 1] = "sleep"
    /\ result.error = "DeviceCodeError"
    /\ now >= grant.expires_at

\* C9, as claimed: a non-success token response other than a JSON
\* authorization_pending or slow_down ends polling at once: DeviceCodeError
\* for the JSON code expired_token, and AuthenticationError carrying the
\* server's reason for every other code and for every body that is not
\* JSON, whatever its text.
C9_OtherErrorsEndPolling ==
    LET r == lastResp.token IN
    (r.kind = "http" /\ r.status >= 400
     /\ JsonError(r) \notin {"authorization_pending", "slow_down"})
    => /\ pc = "done"
       /\ result.kind = "raised"
       /\ IF JsonError(r) = "expired_token"
          THEN result.error = "DeviceCodeError"
          ELSE /\ result.error = "AuthenticationError"
               /\ result.reason = (IF r.hasJson THEN JsonError(r) ELSE r.text)

\* C10, as claimed: every poll_for_token call ends in exactly one of
\* Authorized (a Token returned), Expired (DeviceCodeError) and Denied
\* (AuthenticationError), and it goes back to polling only after an
\* authorization_pending or slow_down answer.
C10_ThreeTerminalStates ==
    op = "poll_for_token" =>
      /\ pc \in {"poll", "sleep", "done"}
      /\ pc = "done" =>
           \/ result.kind = "returned"
           \/ result.kind = "raised"
              /\ result.error \in {"DeviceCodeError", "AuthenticationError"}
      /\ pc = "sleep" =>
           PollError(lastResp.token) \in {"authorization_pending", "slow_down"}

\* logout's revoke request was answered, with a status other than 200 and 204
RevokeRefused ==
    /\ op = "logout"
    /\ lastResp.revoke.kind = "http"
    /\ lastResp.revoke.status \notin {200, 204}

\* C11: when a token is cached and the revoke request is answered with a
\* failure status, logout goes on to call TokenStore.clear once; nothing but
\* a storage failure of that clear can make it raise, and when it returns
\* load finds no token in the store.
C11_RefusedRevokeStillClears ==
    (RevokeRefused /\ pc = "done")
    => /\ tokenSet # NoToken
       /\ Count(trace, "clear") = 1
       /\ Count(trace, "http_revoke") = 1
       /\ result.kind = "raised"
            => (result.error = "TokenStorageError" /\ result.reason = "clear")
       /\ trace[Len(trace)] = "clear"
            => (result.kind = "returned" /\ Held = [raised |-> FALSE, token |-> NoToken])

C11_Witness ==
    /\ RevokeRefused
    /\ lastResp.revoke.status = 500
    /\ tokenSet.access_token = "access"
    /\ trace = <<"load", "http_revoke", "TokenRevocationError", "clear">>
    /\ result.kind = "returned"
    /\ store.kr = NoEntry
    /\ store.file = NoEntry

\* C12, as claimed: when the revoke request fails at the transport level,
\* logout still calls TokenStore.clear and ends as that clear ends.
C12_TransportFailureStillClears ==
    (op = "logout" /\ pc = "done" /\ lastResp.revoke = Transport)
    => /\ Count(trace, "clear") = 1
       /\ result.kind = "raised" => result.reason = "clear"

\* C13, as claimed: every logout that has ended has called TokenStore.clear,
\* whatever the store held, data that makes load fail included.
C13_LogoutAlwaysClears ==
    (op = "logout" /\ pc = "done") => Count(trace, "clear") = 1

\* the latest call the caller made on the store
LastCall ==
    IF trace = <<>> THEN ""
    ELSE IF trace[Len(trace)] = "TokenStorageError" THEN trace[Len(trace) - 1]
    ELSE trace[Len(trace)]

\* the call before the latest one returned, and it was this one
After(call) ==
    \/ Len(trace) >= 2 /\ trace[Len(trace)] # "TokenStorageError"
          /\ trace[Len(trace) - 1] = call
    \/ Len(trace) >= 3 /\ trace[Len(trace)] = "TokenStorageError"
          /\ trace[Len(trace) - 2] = call

\* C14: a load that directly follows a successful save(t) on the same
\* store returns a Token equal to t in all five fields, with the keyring
\* and with the file fallback; it raises only when the backend read itself
\* fails.
C14_SaveThenLoadRoundTrips ==
    (op = "store" /\ LastCall = "load" /\ After("save"))
    => /\ lastSaved \in SaveTokens
       /\ result.kind = "returned"
            => /\ result.token.access_token = lastSaved.access_token
               /\ result.token.refresh_token = lastSaved.refresh_token
               /\ result.token.token_type = lastSaved.token_type
               /\ result.token.scope = lastSaved.scope
               /\ result.token.expires_at = lastSaved.expires_at
       /\ result.kind = "raised" => result.reason = "OSError"

C14_Witness ==
    /\ op = "store"
    /\ ~keyringAvail
    /\ trace = <<"save", "load">>
    /\ result.kind = "returned"
    /\ result.token.token_type = "mac"
    /\ result.token.refresh_token = None
    /\ store.file = Serialize(result.token)

\* C15: once the caller's latest save or clear has succeeded, load finds
\* the argument of that save, or no token after that clear, and every load
\* that returns returns just that; a clear that succeeded leaves no entry
\* in the keyring and no fallback file.
C15_LoadSeesLatestSaveOrClear ==
    (op = "store" /\ lastSaved # Unknown)
    => /\ Held = [raised |-> FALSE, token |-> lastSaved]
       /\ (LastCall = "load" /\ result.kind = "returned") => result.token = lastSaved
       /\ lastSaved = NoToken
            => (store.file = NoEntry /\ (keyringAvail => store.kr = NoEntry))

C15_Witness ==
    /\ op = "store"
    /\ keyringAvail
    /\ trace = <<"save", "clear", "load">>
    /\ result = Returned(NoToken)
    /\ lastSaved = NoToken

\* neither the keyring (when there is one) nor the fallback file has an entry
EmptyStore(st, kavail) == st.file = NoEntry /\ (kavail => st.kr = NoEntry)

\* C16: a clear called on a store with no keyring entry and no fallback
\* file returns without raising and leaves the store empty, unless the
\* keyring call itself fails for another reason than a missing entry.
C16_ClearOnEmptyStoreReturns ==
    [][(/\ op' = "store"
        /\ Count(trace', "clear") = Count(Calls, "clear") + 1
        /\ EmptyStore(store, keyringAvail)
        /\ result'.reason # "delete_password")
       => (result' = Returned(NoToken) /\ EmptyStore(store', keyringAvail))]_vars

C16_Witness ==
    /\ op = "store"
    /\ keyringAvail
    /\ trace = <<"clear", "clear">>
    /\ result = Returned(NoToken)
    /\ EmptyStore(store, keyringAvail)

\* the keyring is there and get_password returns a non-empty entry
KeyringHolds == keyringAvail /\ store.kr \notin {NoEntry, EmptyText}

\* C17: a load that returns gives the keyring's entry whenever the keyring
\* holds one, whatever the file holds; else the file's token when the file
\* exists; else no token; and with no data anywhere load raises only when
\* the backend read itself fails.
C17_KeyringFirstThenFile ==
    (op = "store" /\ LastCall = "load")
    => /\ result.kind = "returned"
            => /\ KeyringHolds
                    => (DeserializeOk(store.kr) /\ result.token = Deserialize(store.kr))
               /\ (~KeyringHolds /\ store.file # NoEntry)
                    => (DeserializeOk(store.file)
                        /\ result.token = Deserialize(store.file))
               /\ (~KeyringHolds /\ store.file = NoEntry) => result.token = NoToken
       /\ (~KeyringHolds /\ store.file = NoEntry /\ result.kind = "raised")
            => result.reason = "OSError"

C17_Witness ==
    /\ op = "store"
    /\ trace = <<"load">>
    /\ KeyringHolds
    /\ store.file = Serialize(OldToken)
    /\ result.kind = "returned"
    /\ result.token.access_token = "access"

\* stored data that is no serialized Token
Malformed == {Garbage, EmptyText, NoExpiry, NoAccess}

\* C18: when the place load reads (the keyring's non-empty entry, else the
\* fallback file) holds data that is no serialized Token, load raises
\* TokenStorageError; it never returns, with no token or with any other.
C18_MalformedDataRaises ==
    (op = "store" /\ LastCall = "load"
       /\ (IF KeyringHolds THEN store.kr ELSE store.file) \in Malformed)
    => (result.kind = "raised" /\ result.error = "TokenStorageError")

C18_Witness ==
    /\ op = "store"
    /\ ~keyringAvail
    /\ store.file = EmptyText
    /\ trace = <<"load", "TokenStorageError">>
    /\ result = Raised("TokenStorageError", "deserialize")

\* C19: with the keyring available, a save that succeeds puts the
\* serialized token in the keyring entry and leaves the fallback file and
\* its mode as they were.
C19_KeyringSaveLeavesFileAlone ==
    [][(/\ op' = "store"
        /\ Count(trace', "save") = Count(Calls, "save") + 1
        /\ keyringAvail
        /\ result'.kind = "returned")
       => (/\ store'.kr = Serialize(lastSaved')
           /\ store'.file = store.file
           /\ store'.mode = store.mode)]_vars

C19_Witness ==
    /\ op = "store"
    /\ keyringAvail
    /\ trace = <<"save">>
    /\ lastSaved \in SaveTokens
    /\ store.kr = Serialize(lastSaved)
    /\ store.file = NoEntry
    /\ store.mode = NoMode

\* C20, as claimed: when the keyring is not installed, or is installed and
\* its write call fails, save writes the serialized token to the fallback
\* file and returns (the file operations themselves not failing).
C20_UnavailableBackendFallsBack ==
    (op = "store" /\ LastCall = "save"
       /\ (~keyringAvail \/ result.reason = "set_password")
       /\ result.reason \notin {"mkdir", "open", "write", "chmod"})
    => (result.kind = "returned" /\ store.file = Serialize(lastSaved))

\* C21: whenever a save has just returned through the file fallback, the
\* fallback file holds the serialized token and its mode is 0600, whether
\* the save created the file or found it there with another mode.
C21_FallbackFileIsOwnerOnly ==
    (~keyringAvail /\ trace # <<>> /\ trace[Len(trace)] = "save")
    => (store.file.kind = "json" /\ store.mode = ModeOwnerOnly)

C21_Witness ==
    /\ op = "store"
    /\ ~keyringAvail
    /\ trace = <<"save", "TokenStorageError", "save">>
    /\ store.file = Serialize(lastSaved)
    /\ store.mode = ModeOwnerOnly

\* C22: a login that returns has sent the device-code request first and
\* once, then polled, then saved once, as its last step; the Token it
\* returns is the one parsed from the last poll response and the one load
\* then finds in the store.
C22_LoginRunsInOrder ==
    (op = "login" /\ pc = "done" /\ result.kind = "returned")
    => /\ trace[1] = "http_device"
       /\ Count(trace, "http_device") = 1
       /\ Count(trace, "save") = 1
       /\ trace[Len(trace)] = "save"
       /\ trace[Len(trace) - 1] = "http_token"
       /\ \A i \in 2..(Len(trace) - 1) :
            /\ trace[i] \in {"browser", "http_token", "sleep"}
            /\ trace[i] = "browser" => i = 2
       /\ result.token = TokenFromResponse(lastResp.token.body, now)
       /\ Held = [raised |-> FALSE, token |-> result.token]

C22_Witness ==
    /\ op = "login"
    /\ pc = "done"
    /\ openBrowser
    /\ result.kind = "returned"
    /\ result.token.access_token = "new"
    /\ Count(trace, "http_token") = 2
    /\ trace[2] = "browser"

\* C23, as claimed: once login has called the browser-opening step, the
\* step's failure does not end the login.
C23_BrowserFailureDoesNotAbort ==
    (op \in {"login", "get_session"} /\ Count(trace, "browser") = 1)
    => trace[Len(trace)] # "webbrowser.Error"

\* poll_for_token has returned a Token parsed from a response that carries
\* an expires_in
BuiltWithLifetime ==
    /\ op = "poll_for_token"
    /\ pc = "done"
    /\ result.kind = "returned"
    /\ "expires_in" \in DOMAIN lastResp.token.body

\* C24, as claimed: a Token built from a response with a positive
\* expires_in is not expired, under the default skew, right after it is
\* built.
C24_PositiveLifetimeNotExpired ==
    (BuiltWithLifetime /\ lastResp.token.body["expires_in"] > 0)
    => ~TokenIsExpired(TokenFromResponse(lastResp.token.body, now), DefaultSkew, now)

\* C24, amended: a Token built from a response is not expired right after
\* it is built when its expires_in is more than 30, and expired at once
\* when its expires_in is 30 or less.
C24_LifetimeBeyondSkewNotExpired ==
    BuiltWithLifetime
    => /\ result.token = TokenFromResponse(lastResp.token.body, now)
       /\ TokenIsExpired(result.token, DefaultSkew, now)
            <=> (lastResp.token.body["expires_in"] <= 30)

C24_Witness ==
    /\ BuiltWithLifetime
    /\ lastResp.token.body["expires_in"] = 31
    /\ result.token.expires_at = now + 31
    /\ ~TokenIsExpired(result.token, DefaultSkew, now)

\* AuthenticationError and its four subclasses
AuthErrors ==
    {"AuthenticationError", "DeviceCodeError", "TokenRefreshError",
     "TokenStorageError", "TokenRevocationError"}

\* C25, as claimed: whatever an AuthClient operation raises is an
\* AuthenticationError or one of its four subclasses.
C25_OnlyAuthenticationErrors ==
    (op \in {"get_session", "login", "logout", "poll_for_token"}
       /\ result.kind = "raised")
    => result.error \in AuthErrors

\* C26, as claimed: a discover_models call sends one GET request and
\* returns the payload of its response.
C26_DiscoverModelsSendsOneGet ==
    (op = "discover_models" /\ pc = "done")
    => (result.kind = "returned" /\ Count(trace, "http_get") = 1)

\* poll_for_token ended because the grant ran out
EndedByExpiry ==
    /\ result.error = "DeviceCodeError"
    /\ trace[Len(trace)] = "DeviceCodeError"
    /\ now >= grant.expires_at
    /\ (Len(trace) >= 2 => trace[Len(trace) - 1] = "sleep")

\* poll_for_token ended on the response it had just received
EndedByResponse ==
    /\ lastResp.token.kind = "http"
    /\ PollOutcome(lastResp.token, interval).next \in {"return", "raise"}
    /\ \/ trace[Len(trace)] = "http_token"
       \/ Len(trace) >= 2 /\ trace[Len(trace) - 1] = "http_token"

\* C27: with a grant that runs out, requests that return and a clock that
\* moves on, a poll_for_token call that has started always ends, and it
\* ends because the grant ran out or on the response it had just received.
C27_PollingTerminates ==
    (op = "poll_for_token" /\ pc \in {"poll", "sleep"})
    ~> (pc = "done" /\ (EndedByExpiry \/ EndedByResponse))

C27_Witness ==
    /\ op = "poll_for_token"
    /\ pc = "done"
    /\ grant.interval = 0
    /\ slowDowns = 1
    /\ trace = <<"http_token", "sleep", "http_token", "sleep", "DeviceCodeError">>
    /\ EndedByExpiry

\* get_session loaded no token, or an expired one without a refresh_token
NothingToRefresh ==
    /\ op = "get_session"
    /\ ~(Len(trace) >= 2 /\ trace[2] = "TokenStorageError")
    /\ \/ tokenSet = NoToken
       \/ ExpiredAt(tokenSet, calledAt) /\ tokenSet.refresh_token \in {None, ""}

\* C28: with no cached token, or an expired one whose refresh_token is
\* None or empty, get_session sends no refresh request and runs login
\* once; when it returns, it returns the Token that login parsed and saved.
C28_NoRefreshWithoutRefreshToken ==
    NothingToRefresh
    => /\ Count(trace, "http_refresh") = 0
       /\ lastResp.refresh = NoResp
       /\ pc # "refresh"
       /\ Count(trace, "http_device") = (IF pc = "start_device" THEN 0 ELSE 1)
       /\ result.kind = "returned"
            => /\ trace[Len(trace)] = "save"
               /\ Count(trace, "save") = 1
               /\ result.token = TokenFromResponse(lastResp.token.body, now)

C28_Witness ==
    /\ NothingToRefresh
    /\ tokenSet # NoToken
    /\ tokenSet.refresh_token = ""
    /\ pc = "done"
    /\ result.kind = "returned"
    /\ Count(trace, "http_device") = 1

\* C29, as claimed: the grant login got from start_device_code has an
\* interval of 0 or more, and so has every wait of its polling.
C29_IntervalNeverNegative ==
    (op \in {"login", "get_session"} /\ grant # NoGrant)
    => (grant.interval >= 0 /\ interval >= 0)

\* C30: from its load on, no step of get_session or logout changes the
\* Token it loaded: what a refresh returns is another Token.
C30_LoadedTokenKeepsItsFields ==
    [][(op \in {"get_session", "logout"}) => (tokenSet' = tokenSet)]_vars

C30_Witness ==
    /\ op = "get_session"
    /\ pc = "done"
    /\ trace = <<"load", "http_refresh", "save">>
    /\ tokenSet = StoredToken(-300, "refresh")
    /\ result.token.access_token = "fresh"
    /\ result.token # tokenSet

\* the values a request's form data carries
Carried(data) == {data[k] : k \in DOMAIN data}

\* C31: once login or poll_for_token has a grant, the request login sent
\* to the device-code endpoint and any request to the revoke endpoint carry
\* no value equal to the grant's device_code, and the URL handed to
\* webbrowser.open is the grant's verification_uri_complete or its
\* verification_uri, which is not the device_code.
C31_DeviceCodeOnlyToTokenEndpoint ==
    (op \in {"login", "get_session", "poll_for_token"} /\ grant # NoGrant)
    => /\ grant.device_code \notin Carried(lastReq.device)
       /\ grant.device_code \notin Carried(lastReq.revoke)
       /\ lastReq.browser # NotOpened
            => /\ lastReq.browser \in {grant.verification_uri_complete,
                                       grant.verification_uri}
               /\ lastReq.browser # grant.device_code

C31_Witness ==
    /\ op = "login"
    /\ pc = "done"
    /\ result.kind = "returned"
    /\ lastReq.device = DeviceCodeRequest
    /\ lastReq.token.device_code = grant.device_code
    /\ grant.device_code = "device"
    /\ lastReq.browser = "https://verify?user_code=user"

\* the step is a save that raised TokenStorageError
SaveFailed ==
    /\ op' = "store"
    /\ trace' # trace
    /\ result'.kind = "raised"
    /\ result'.error = "TokenStorageError"
    /\ result'.reason \in {"set_password", "mkdir", "open", "write", "chmod"}

\* C33, as claimed: after a save that raised TokenStorageError, load returns
\* what it would have returned before that save, whichever step failed.
C33_FailedSaveKeepsCredential ==
    [][SaveFailed => (StoreLoad(store', keyringAvail, FALSE)
                        = StoreLoad(store, keyringAvail, FALSE))]_vars

\* C34: a step of login, or of get_session on its way through refresh and
\* login, changes the store only when it ends the call, with the saved
\* Token returned or with save's TokenStorageError: a call that ends with
\* DeviceCodeError or AuthenticationError, or any other error of the device
\* flow, has left the store as it was at the call.
C34_FailedLoginWritesNothing ==
    [][(op' \in {"login", "get_session"} /\ store' # store)
         => /\ pc' = "done"
            /\ trace' # trace
            /\ \/ result'.kind = "returned" /\ trace'[Len(trace')] = "save"
               \/ result' = Raised("TokenStorageError", "save")]_vars

C34_Witness ==
    /\ op = "get_session"
    /\ pc = "done"
    /\ Count(trace, "TokenRefreshError") = 1
    /\ Count(trace, "http_token") > 0
    /\ Count(trace, "save") = 0
    /\ result.kind = "raised"
    /\ result.error \in {"DeviceCodeError", "AuthenticationError"}
    /\ tokenSet # NoToken
    /\ Held = [raised |-> FALSE, token |-> tokenSet]

\* both writers have returned from saves of different Tokens
BothSaved ==
    /\ \A w \in Writers : procs.pc[w] = "done"
    /\ procs.token["writer1"] # procs.token["writer2"]

\* C32, as claimed: once two concurrent saves of different Tokens have both
\* returned, load returns the Token of the save that wrote last, and does
\* not raise or return None.
C32_LastWriterWins ==
    BothSaved
    => LoadResult(store, keyringAvail) = Returned(procs.token[procs.wrote[Len(procs.wrote)]])

\* one file-fallback save is under way or has returned, the other writer
\* has not started
OneSave ==
    /\ ~keyringAvail
    /\ \E w \in Writers : procs.pc[w] # "idle"
    /\ \E w \in Writers : procs.pc[w] = "idle"

\* C35, as claimed: a load concurrent with one file-fallback save returns
\* the Token stored before the save or the Token being saved and does not
\* raise, and whenever the file holds token text its mode is owner-only.
C35_LoadSeesOldOrNew ==
    OneSave
    => /\ procs.seen \in {NoResult, procs.before}
                          \cup {Returned(procs.token[w]) :
                                  w \in {v \in Writers : procs.pc[v] # "idle"}}
       /\ store.file.kind = "json" => store.mode = ModeOwnerOnly

====
